---- MODULE Spec2Model ----
(***************************************************************************)
(* A model of the glog logging backend (src/src/lib.rs): the Glog value    *)
(* built by the caller, the clone registered with the log facade, the      *)
(* console stream, the per-severity log files on disk, and the operations  *)
(* init, log and flush, including the I/O failures each of them can meet.  *)
(***************************************************************************)
EXTENDS Integers, Sequences, FiniteSets, TLC

VARIABLES
    clock,      \* Local::now(), in whole seconds
    glog,       \* the caller's Glog value (struct Glog)
    logger,     \* << the clone registered by log::set_boxed_logger >>, or << >>
    max_level,  \* the facade's global gate, log::set_max_level
    disk,       \* path -> sequence of chunks written to that file
    console,    \* sequence of entries written to stderr
    last,       \* what the last operation was and how it ended
    nlogs,      \* number of log calls made so far
    ninits,     \* number of init calls made so far
    pc,         \* per thread: the rest of the I/O plan of its running call
    lock,       \* the pairs << path, thread >>: thread holds the Mutex of path
    sent        \* per thread: the records whose log call has returned

vars == <<clock, glog, logger, max_level, disk, console, last, nlogs, ninits,
          pc, lock, sent>>

----------------------------------------------------------------------------
(* Bounds of the model.                                                    *)

MaxLogs == 1
MaxInits == 2
MaxClock == 1
NThreads == 2
MaxPerThread == 1
MaxElapsed == 3725

Threads == 1..NThreads

----------------------------------------------------------------------------
(* Severities: log::Level, ordered Error < Warn < Info < Debug < Trace.    *)

Levels == {"Error", "Warn", "Info", "Debug", "Trace"}

LevelOrd(level) ==
    CASE level = "Error" -> 1
      [] level = "Warn"  -> 2
      [] level = "Info"  -> 3
      [] level = "Debug" -> 4
      [] level = "Trace" -> 5

\* Level::as_str() / level.to_string().to_uppercase()
LevelStr(level) ==
    CASE level = "Error" -> "ERROR"
      [] level = "Warn"  -> "WARN"
      [] level = "Info"  -> "INFO"
      [] level = "Debug" -> "DEBUG"
      [] level = "Trace" -> "TRACE"

\* as_str().chars().nth(0).unwrap()
LevelLetter(level) ==
    CASE level = "Error" -> "E"
      [] level = "Warn"  -> "W"
      [] level = "Info"  -> "I"
      [] level = "Debug" -> "D"
      [] level = "Trace" -> "T"

----------------------------------------------------------------------------
(* Inputs: flags, records.                                                 *)

NoTrigger == [some |-> FALSE, v |-> ""]
SomeStr(s) == [some |-> TRUE, v |-> s]
Triggers == {NoTrigger, SomeStr("server.rs:42")}

NoFlags == [minloglevel |-> "Info", logtostderr |-> FALSE, alsologtostderr |-> FALSE,
            colorlogtostderr |-> FALSE, log_backtrace_at |-> NoTrigger]

FlagsDomain ==
    [minloglevel : Levels, logtostderr : BOOLEAN, alsologtostderr : BOOLEAN,
     colorlogtostderr : BOOLEAN, log_backtrace_at : Triggers]

NoLine == 0
Sites == { [file |-> <<"src", "server.rs">>, line |-> 42],
           [file |-> <<"server.rs">>, line |-> 7],
           [file |-> <<>>, line |-> NoLine] }

Record(level, site, msg) ==
    [level |-> level, file |-> site.file, line |-> site.line, args |-> msg]

NoRecord == Record("Info", [file |-> <<>>, line |-> NoLine], <<0, 0>>)

Fingerprints == {NoTrigger, SomeStr("fp")}

----------------------------------------------------------------------------
(* Pure helpers of Glog.                                                   *)

\* faulty variant: only Debug is collapsed into Info
match_level_debug_only(compatible_verbosity, level) ==
    IF level = "Debug" /\ compatible_verbosity THEN "Info" ELSE level

match_level(compatible_verbosity, level) ==
    IF level = "Debug" /\ compatible_verbosity THEN "Info"
    ELSE IF level = "Trace" /\ compatible_verbosity THEN "Info"
    ELSE level

\* faulty variant: the comparison the other way round
enabled_reversed(flags, level) == LevelOrd(flags.minloglevel) <= LevelOrd(level)

enabled(flags, level) == LevelOrd(flags.minloglevel) >= LevelOrd(level)

record_to_file_name(record) ==
    IF Len(record.file) = 0 THEN "" ELSE record.file[Len(record.file)]

\* faulty variant: any record triggers once a trigger is configured
should_log_backtrace_any(flags, file_name, line) == flags.log_backtrace_at.some

should_log_backtrace(flags, file_name, line) ==
    IF flags.log_backtrace_at.some
    THEN (file_name \o ":" \o ToString(line)) = flags.log_backtrace_at.v
    ELSE FALSE

build_log_message(g, record, now, tid) ==
    [letter |-> LevelLetter(match_level(g.compatible_verbosity, record.level)),
     year   |-> ~g.compatible_date,
     ts     |-> now,
     tid    |-> tid,
     file   |-> record_to_file_name(record),
     line   |-> record.line,
     msg    |-> record.args]

\* {:02}
Pad2(n) == IF n < 10 THEN "0" \o ToString(n) ELSE ToString(n)

num_hours(d) == d \div 3600
num_minutes(d) == d \div 60
num_seconds(d) == d

\* "{}:{:02}:{:02}" of num_hours, num_minutes, num_seconds
DurationText(running_duration) ==
    ToString(num_hours(running_duration)) \o ":"
        \o Pad2(num_minutes(running_duration)) \o ":"
        \o Pad2(num_seconds(running_duration))

FileHeader(g, now) ==
    [kind |-> "header",
     body |-> [created     |-> now,
               host        |-> "host",
               fingerprint |-> g.application_fingerprint,
               duration    |-> DurationText(now - g.start_time),
               legend_td   |-> ~g.compatible_verbosity,
               legend_year |-> ~g.compatible_date]]

\* <exe>.<host>.<user>.log.<SEVERITY>.<YYYYMMDD-HHMMSS>.<pid>
LogFilePath(level, now) == [severity |-> LevelStr(level), stamp |-> now]

MaxFiles == Cardinality(Levels)

\* faulty variant: the Trace and Debug files are never made
FileLevels_three(compatible_verbosity) == <<"Info", "Warn", "Error">>

\* the levels create_log_files makes a file for, in its order
FileLevels(compatible_verbosity) ==
    (IF ~compatible_verbosity THEN <<"Trace", "Debug">> ELSE <<>>)
        \o <<"Info", "Warn", "Error">>

----------------------------------------------------------------------------
(* I/O plans.  A call of log or flush is the sequence of I/O operations    *)
(* its code performs, in order.  An operation fails when the environment   *)
(* makes it fail (the injected point) or when it is an unwrap of None; a   *)
(* failure the code meets with expect/unwrap/panic! is fatal and ends the  *)
(* call there, one it meets with .ok() is dropped and the call goes on.    *)

NoPath == [severity |-> "", stamp |-> 0]
NoEntry == [kind |-> "none", body |-> <<>>]

Op(point, fatal, target, path, entry) ==
    [point |-> point, fatal |-> fatal, target |-> target, path |-> path,
     entry |-> entry]

\* points where the operating system can refuse the I/O
IOPoints == {"set_color", "console_write", "reset_color", "backtrace_write",
             "file_write", "file_write_nl", "console_flush", "file_flush",
             "create_file"}
\* Option::unwrap on None
UnwrapPoints == {"unwrap_line", "missing_handle"}

ColorOf(level) ==
    CASE level = "Error" -> "Red"
      [] level = "Warn"  -> "Yellow"
      [] OTHER           -> "None"

write_stderr(g, record, now, tid) ==
    LET color == g.flags.colorlogtostderr
        file_name == record_to_file_name(record)
    IN  (IF color
         THEN << Op("set_color", TRUE, "console", NoPath,
                    [kind |-> "color", body |-> ColorOf(record.level)]) >>
         ELSE << >>)
        \o (IF record.line = NoLine
            THEN << Op("unwrap_line", TRUE, "none", NoPath, NoEntry) >>
            ELSE << Op("console_write", TRUE, "console", NoPath,
                       [kind |-> "line",
                        body |-> build_log_message(g, record, now, tid)]) >>)
        \o (IF color
            THEN << Op("reset_color", TRUE, "console", NoPath,
                       [kind |-> "reset", body |-> "None"]) >>
            ELSE << >>)
        \o (IF should_log_backtrace(g.flags, file_name, record.line)
            THEN << Op("backtrace_write", TRUE, "console", NoPath,
                       [kind |-> "backtrace", body |-> "Backtrace"]) >>
            ELSE << >>)

\* faulty variant: the append is made without taking the file's Mutex
write_file_unlocked(g, record, now, tid) ==
    LET level == match_level(g.compatible_verbosity, record.level)
        path == g.file_writer[level]
    IN  << Op("file_write", TRUE, "file", path,
              [kind |-> "text", body |-> build_log_message(g, record, now, tid)]),
           Op("file_write_nl", TRUE, "file", path,
              [kind |-> "nl", body |-> "\n"]) >>

write_file(g, record, now, tid) ==
    LET level == match_level(g.compatible_verbosity, record.level)
    IN  IF level \notin DOMAIN g.file_writer
        THEN << Op("missing_handle", TRUE, "none", NoPath, NoEntry) >>
        ELSE LET path == g.file_writer[level]
             IN  << Op("lock", TRUE, "lock", path, NoEntry) >>
                 \o (IF record.line = NoLine
                     THEN << Op("unwrap_line", TRUE, "none", NoPath, NoEntry) >>
                     ELSE << Op("file_write", TRUE, "file", path,
                                [kind |-> "text",
                                 body |-> build_log_message(g, record, now, tid)]),
                             Op("file_write_nl", TRUE, "file", path,
                                [kind |-> "nl", body |-> "\n"]) >>)
                 \o << Op("unlock", TRUE, "unlock", path, NoEntry) >>

\* faulty variant: every passing record is mirrored to the console
log_mirror_always(g, record, now1, now2, tid) ==
    IF ~enabled(g.flags, record.level)
    THEN << >>
    ELSE write_stderr(g, record, now1, tid)
         \o (IF ~g.flags.logtostderr
             THEN write_file(g, record, now2, tid) ELSE << >>)

\* Log::log: now1 is the clock when write_stderr renders, now2 when
\* write_file renders
log(g, record, now1, now2, tid) ==
    IF ~enabled(g.flags, record.level)
    THEN << >>
    ELSE (IF g.flags.logtostderr \/ g.flags.alsologtostderr
          THEN write_stderr(g, record, now1, tid) ELSE << >>)
         \o (IF ~g.flags.logtostderr
             THEN write_file(g, record, now2, tid) ELSE << >>)

SeqOfSet(S) ==
    LET RECURSIVE Build(_)
        Build(T) == IF T = {} THEN << >>
                    ELSE LET x == CHOOSE y \in T : TRUE
                         IN  << x >> \o Build(T \ {x})
    IN  Build(S)

\* Log::flush
flush(g) ==
    LET paths == SeqOfSet({g.file_writer[l] : l \in DOMAIN g.file_writer})
        FlushFile(i) == << Op("lock", TRUE, "lock", paths[i], NoEntry),
                           Op("file_flush", TRUE, "none", paths[i], NoEntry),
                           Op("unlock", TRUE, "unlock", paths[i], NoEntry) >>
        RECURSIVE All(_)
        All(i) == IF i > Len(paths) THEN << >> ELSE FlushFile(i) \o All(i + 1)
    IN  << Op("console_flush", FALSE, "none", NoPath, NoEntry) >> \o All(1)

Fails(op, fail) == op.point = fail \/ op.point \in UnwrapPoints

\* index of the operation that ends the call abnormally, Len + 1 if none
StopIndex(ops, fail) ==
    LET bad == {i \in 1..Len(ops) : Fails(ops[i], fail) /\ ops[i].fatal}
    IN  IF bad = {} THEN Len(ops) + 1
        ELSE CHOOSE i \in bad : \A j \in bad : i <= j

Executed(ops, fail) == SubSeq(ops, 1, StopIndex(ops, fail) - 1)

Panics(ops, fail) == StopIndex(ops, fail) <= Len(ops)

\* an I/O operation the call reached was refused
IOError(ops, fail) ==
    \E i \in 1..Len(ops) :
        /\ i <= StopIndex(ops, fail)
        /\ ops[i].point = fail
        /\ fail \in IOPoints

Entries(ops, target, path) ==
    LET sel == SelectSeq(ops, LAMBDA o : o.target = target /\ o.path = path)
    IN  [i \in 1..Len(sel) |-> sel[i].entry]

----------------------------------------------------------------------------
(* State after Glog::new().                                                *)

Last(op, record, fail, ioerror, outcome) ==
    [op |-> op, record |-> record, fail |-> fail, ioerror |-> ioerror,
     outcome |-> outcome]

Init ==
    /\ clock = 0
    /\ glog = [compatible_verbosity |-> TRUE,
               compatible_date |-> TRUE,
               flags |-> NoFlags,
               application_fingerprint |-> NoTrigger,
               start_time |-> 0,
               file_writer |-> << >>]
    /\ logger = << >>
    /\ max_level = "Off"
    /\ disk = << >>
    /\ console = << >>
    /\ last = Last("new", NoRecord, "none", FALSE, "ok")
    /\ nlogs = 0
    /\ ninits = 0
    /\ pc = [t \in Threads |-> << >>]
    /\ lock = {}
    /\ sent = [t \in Threads |-> << >>]

Running == last.outcome # "panic"

Tick ==
    /\ Running
    /\ clock < MaxClock
    /\ clock' = clock + 1
    /\ UNCHANGED <<glog, logger, max_level, disk, console, last, nlogs, ninits,
                   pc, lock, sent>>

Builder(g) ==
    /\ Running
    /\ glog' = g
    /\ last' = Last("builder", NoRecord, "none", FALSE, "ok")
    /\ UNCHANGED <<clock, logger, max_level, disk, console, nlogs, ninits, pc,
                   lock, sent>>

with_year(with_year_) ==
    Builder([glog EXCEPT !.compatible_date = ~with_year_])

limited_abbreviations(limit_abbreviations) ==
    Builder([glog EXCEPT !.compatible_verbosity = limit_abbreviations])

set_application_fingerprint(fingerprint) ==
    Builder([glog EXCEPT !.application_fingerprint = SomeStr(fingerprint)])

\* create_log_files, stopped by a failure in write_file_header of file
\* number stop (no failure: stop past the last file)
create_log_files(g, now, stop) ==
    LET levels == FileLevels(g.compatible_verbosity)
        made == {levels[i] : i \in 1..(stop - 1) \cap DOMAIN levels}
    IN  [g EXCEPT !.file_writer =
            [l \in DOMAIN g.file_writer \cup made |->
                IF l \in made THEN LogFilePath(l, now) ELSE g.file_writer[l]]]

\* the disk after write_file_header has run for the files before stop:
\* File::create truncates, then the header is written
DiskAfterCreate(g, now, stop) ==
    LET levels == FileLevels(g.compatible_verbosity)
        made == {LogFilePath(levels[i], now) : i \in 1..(stop - 1) \cap DOMAIN levels}
    IN  [p \in DOMAIN disk \cup made |->
            IF p \in made THEN << FileHeader(g, now) >> ELSE disk[p]]

\* log::set_boxed_logger: Ok the first time, SetLoggerError afterwards
set_boxed_logger(g) == IF logger = << >> THEN << g >> ELSE logger

init(flags, stop) ==
    LET g1 == [glog EXCEPT !.flags = flags]
        n  == IF ~flags.logtostderr
              THEN Len(FileLevels(g1.compatible_verbosity)) ELSE 0
        g2 == create_log_files(g1, clock, stop)
    IN  /\ Running
        /\ stop \in 1..(n + 1) \/ stop > MaxFiles
        /\ ninits' = ninits + 1
        /\ glog' = g2
        /\ disk' = DiskAfterCreate(g1, clock, stop)
        /\ IF stop <= n
           THEN /\ last' = Last("init", NoRecord, "create_file", TRUE, "panic")
                /\ UNCHANGED <<max_level, logger>>
           ELSE /\ max_level' = flags.minloglevel
                /\ logger' = set_boxed_logger(g2)
                /\ last' = Last("init", NoRecord, "none", FALSE,
                                IF logger = << >> THEN "ok" ELSE "err")
        /\ UNCHANGED <<clock, console, nlogs, pc, lock, sent>>

\* the failures the environment can inject into a plan
FailChoices(ops) == {"none"} \cup ({ops[i].point : i \in 1..Len(ops)} \cap IOPoints)

\* one whole call, run without interruption
RunCall(op, record, ops, fail) ==
    LET done == Executed(ops, fail)
    IN  /\ console' = console \o Entries(done, "console", NoPath)
        /\ disk' = [p \in DOMAIN disk |-> disk[p] \o Entries(done, "file", p)]
        /\ last' = Last(op, record, fail, IOError(ops, fail),
                        IF Panics(ops, fail) THEN "panic" ELSE "ok")

\* the clock can move between the two renderings of a record that goes to
\* both sinks; any other passing of time is a Tick between calls
BothSinks(g) == (g.flags.logtostderr \/ g.flags.alsologtostderr) /\ ~g.flags.logtostderr

Log(t, level, site, d, fail) ==
    LET record == Record(level, site, <<t, nlogs + 1>>)
        ops == log(logger[1], record, clock, clock + d, t)
    IN  /\ Running
        /\ logger # << >>
        /\ nlogs < MaxLogs
        /\ clock + d <= MaxClock
        /\ d > 0 => BothSinks(logger[1]) /\ enabled(logger[1].flags, level)
        /\ fail \in FailChoices(ops)
        /\ nlogs' = nlogs + 1
        /\ clock' = clock + d
        /\ RunCall("log", record, ops, fail)
        /\ UNCHANGED <<glog, logger, max_level, ninits, pc, lock, sent>>

Flush(fail) ==
    LET ops == flush(logger[1])
    IN  /\ Running
        /\ logger # << >>
        /\ fail \in FailChoices(ops)
        /\ RunCall("flush", NoRecord, ops, fail)
        /\ UNCHANGED <<clock, glog, logger, max_level, nlogs, ninits, pc, lock,
                       sent>>

\* records that carry their line number, as the log macros build them
LineSites == {site \in Sites : site.line # NoLine}
ThreadSite == [file |-> <<"src", "server.rs">>, line |-> 42]

(* A program that builds its Glog, initializes it once and then logs and   *)
(* flushes from its main thread, on a machine whose I/O succeeds.          *)
Next ==
    \/ Tick
    \/ \E b \in BOOLEAN : ninits = 0 /\ limited_abbreviations(b)
    \/ \E flags \in FlagsDomain : logger = << >> /\ init(flags, MaxFiles + 1)
    \/ \E level \in Levels, site \in LineSites, d \in 0..1 :
          Log(1, level, site, d, "none")
    \/ Flush("none")

Spec == Init /\ [][Next]_vars

----------------------------------------------------------------------------
(* The same program on a machine whose I/O can fail, logging records that  *)
(* may lack a line number.                                                 *)

NextFaults ==
    \/ Tick
    \/ \E b \in BOOLEAN : ninits = 0 /\ limited_abbreviations(b)
    \/ \E flags \in FlagsDomain, stop \in 1..(MaxFiles + 1) :
          logger = << >> /\ init(flags, stop)
    \/ \E level \in Levels, site \in Sites, d \in 0..1,
          fail \in IOPoints \cup {"none"} : Log(1, level, site, d, fail)
    \/ \E fail \in IOPoints \cup {"none"} : Flush(fail)

SpecFaults == Init /\ [][NextFaults]_vars

----------------------------------------------------------------------------
(* A program that calls init again on its Glog value after the first call. *)

PlainFlags ==
    {flags \in FlagsDomain :
        ~flags.colorlogtostderr /\ ~flags.log_backtrace_at.some}

NextReinit ==
    \/ Tick
    \/ \E b \in BOOLEAN : limited_abbreviations(b)
    \/ \E flags \in PlainFlags :
          /\ ~flags.alsologtostderr
          /\ ninits < MaxInits
          /\ init(flags, MaxFiles + 1)
    \/ \E level \in Levels : Log(1, level, ThreadSite, 0, "none")
    \/ Flush("none")

SpecReinit == Init /\ [][NextReinit]_vars

----------------------------------------------------------------------------
(* A program that runs for a while before it initializes file logging.     *)

ElapseSteps == {25, 60, 3600}

Elapse(d) ==
    /\ Running
    /\ ninits = 0
    /\ clock + d <= MaxElapsed
    /\ clock' = clock + d
    /\ UNCHANGED <<glog, logger, max_level, disk, console, last, nlogs, ninits,
                   pc, lock, sent>>

FileFlags == {flags \in PlainFlags : ~flags.logtostderr /\ ~flags.alsologtostderr}

NextHeader ==
    \/ \E d \in ElapseSteps : Elapse(d)
    \/ \E b \in BOOLEAN : ninits = 0 /\ with_year(b)
    \/ \E b \in BOOLEAN : ninits = 0 /\ limited_abbreviations(b)
    \/ ninits = 0 /\ set_application_fingerprint("fp")
    \/ \E flags \in FileFlags :
          flags.minloglevel = "Info" /\ logger = << >> /\ init(flags, MaxFiles + 1)

SpecHeader == Init /\ [][NextHeader]_vars

----------------------------------------------------------------------------
(* Several threads logging through the registered logger at once: each     *)
(* call runs its I/O plan one operation at a time.                         *)

ThreadLevels == {"Info", "Debug"}

Held(path) == \E t \in Threads : <<path, t>> \in lock

Begin(t, level) ==
    LET record == Record(level, ThreadSite, <<t, Len(sent[t]) + 1>>)
    IN  /\ Running
        /\ logger # << >>
        /\ pc[t] = << >>
        /\ Len(sent[t]) < MaxPerThread
        /\ sent' = [sent EXCEPT ![t] = Append(@, record)]
        /\ pc' = [pc EXCEPT ![t] = log(logger[1], record, clock, clock, t)]
        /\ UNCHANGED <<clock, glog, logger, max_level, disk, console, last,
                       nlogs, ninits, lock>>

Step(t) ==
    LET op == Head(pc[t])
    IN  /\ Running
        /\ pc[t] # << >>
        /\ pc' = [pc EXCEPT ![t] = Tail(@)]
        /\ CASE op.target = "lock" ->
                  /\ ~Held(op.path)
                  /\ lock' = lock \cup {<<op.path, t>>}
                  /\ UNCHANGED <<disk, console, last>>
             [] op.target = "unlock" ->
                  /\ lock' = lock \ {<<op.path, t>>}
                  /\ UNCHANGED <<disk, console, last>>
             [] op.target = "console" ->
                  /\ console' = Append(console, op.entry)
                  /\ UNCHANGED <<disk, lock, last>>
             [] op.target = "file" ->
                  /\ disk' = [disk EXCEPT ![op.path] = Append(@, op.entry)]
                  /\ UNCHANGED <<console, lock, last>>
             [] OTHER ->
                  /\ last' = IF op.point \in UnwrapPoints
                             THEN Last("log", NoRecord, "none", FALSE, "panic")
                             ELSE last
                  /\ UNCHANGED <<disk, console, lock>>
        /\ UNCHANGED <<clock, glog, logger, max_level, nlogs, ninits, sent>>

NextThreads ==
    \/ \E b \in BOOLEAN : ninits = 0 /\ limited_abbreviations(b)
    \/ \E flags \in FileFlags :
          /\ flags.minloglevel \in {"Info", "Trace"}
          /\ logger = << >>
          /\ init(flags, MaxFiles + 1)
    \/ \E t \in Threads, level \in ThreadLevels : Begin(t, level)
    \/ \E t \in Threads : Step(t)

SpecThreads == Init /\ [][NextThreads]_vars

----------------------------------------------------------------------------
(* Properties.                                                             *)

\* the specification's order of severities, least severe first
SeverityRank(level) ==
    CASE level = "Trace" -> 1
      [] level = "Debug" -> 2
      [] level = "Info"  -> 3
      [] level = "Warn"  -> 4
      [] level = "Error" -> 5

AtLeastAsSevere(level, minimum) == SeverityRank(level) >= SeverityRank(minimum)

Active == logger # << >>
Cfg == logger[1]
ToConsole == Cfg.flags.logtostderr \/ Cfg.flags.alsologtostderr
ToFile == ~Cfg.flags.logtostderr

\* what a sequence gained in a step that only appends to it
Delta(new, old) == SubSeq(new, Len(old) + 1, Len(new))
Extends(new, old) == Len(new) >= Len(old) /\ SubSeq(new, 1, Len(old)) = old
Count(seq, kind) == Cardinality({i \in 1..Len(seq) : seq[i].kind = kind})
Kinds(seq) == [i \in 1..Len(seq) |-> seq[i].kind]
Visible(seq) == SelectSeq(seq, LAMBDA e : e.kind \notin {"color", "reset"})

\* this step is a call of log
LogStep == nlogs' = nlogs + 1
LastLogged == last.op = "log" /\ Active
Passed == AtLeastAsSevere(last.record.level, Cfg.flags.minloglevel)

\* C1: enabled(S) is true iff S is at least as severe as the configured
\* minimum, and a call of log with a record less severe than the minimum
\* leaves the console and every file unchanged.
C1_Gating ==
    /\ [](Active => \A level \in Levels :
            enabled(Cfg.flags, level)
                <=> AtLeastAsSevere(level, Cfg.flags.minloglevel))
    /\ [][(LogStep /\ ~AtLeastAsSevere(last'.record.level, Cfg.flags.minloglevel))
            => (console' = console /\ disk' = disk)]_vars

C1_Witness ==
    /\ LastLogged
    /\ ~Passed
    /\ ToConsole
    /\ DOMAIN disk # {}

\* C2: a passing record adds exactly one line to the console iff console-only
\* or also-log-to-console is set, else nothing; and exactly one line to
\* exactly one severity file iff console-only is not set, else nothing.
C2_Dispatch ==
    [][(LogStep /\ AtLeastAsSevere(last'.record.level, Cfg.flags.minloglevel))
        => /\ Extends(console', console)
           /\ Count(Delta(console', console), "line") = (IF ToConsole THEN 1 ELSE 0)
           /\ ~ToConsole => console' = console
           /\ DOMAIN disk' = DOMAIN disk
           /\ \A p \in DOMAIN disk : Extends(disk'[p], disk[p])
           /\ ToFile =>
                \E p \in DOMAIN disk :
                    /\ Kinds(Delta(disk'[p], disk[p])) = <<"text", "nl">>
                    /\ \A q \in DOMAIN disk \ {p} : disk'[q] = disk[q]
           /\ ~ToFile => disk' = disk]_vars

C2_Witness ==
    /\ LastLogged
    /\ Passed
    /\ ToConsole /\ ToFile
    /\ Count(console, "line") = 1
    /\ \E p \in DOMAIN disk : Kinds(disk[p]) = <<"header", "text", "nl">>

\* the line the last call of log put on the console, and in its file
LastConsoleLine ==
    LET i == CHOOSE i \in 1..Len(console) :
                /\ console[i].kind = "line"
                /\ \A j \in (i + 1)..Len(console) : console[j].kind # "line"
    IN  console[i].body
LastFileLine ==
    LET f == disk[Cfg.file_writer[match_level(Cfg.compatible_verbosity,
                                              last.record.level)]]
    IN  f[Len(f) - 1].body

\* C3: a passing record written to both the console and a file is rendered
\* once: both sinks receive the same text, whatever the clock does between
\* the two writes.
C3_SingleRendering ==
    (LastLogged /\ Passed /\ ToConsole /\ ToFile /\ last.outcome = "ok")
        => LastConsoleLine = LastFileLine

\* the specification's effective severity
Effective(compatible, level) ==
    IF compatible /\ level \in {"Trace", "Debug"} THEN "Info" ELSE level

ExpectedLetter(compatible, level) ==
    IF compatible /\ level \in {"Trace", "Debug"} THEN "I"
    ELSE CASE level = "Trace" -> "T"
           [] level = "Debug" -> "D"
           [] level = "Info"  -> "I"
           [] level = "Warn"  -> "W"
           [] level = "Error" -> "E"

ExpectedFile(compatible, level) ==
    IF compatible /\ level \in {"Trace", "Debug"} THEN "INFO"
    ELSE CASE level = "Trace" -> "TRACE"
           [] level = "Debug" -> "DEBUG"
           [] level = "Info"  -> "INFO"
           [] level = "Warn"  -> "WARN"
           [] level = "Error" -> "ERROR"

\* C4: with the compatibility switch on, Trace and Debug records are written
\* with letter I and appended to the Info file, and no Trace or Debug file
\* exists; with the switch off they are written with T and D and appended to
\* their own files; Info, Warn and Error keep their letter and file.
C4_Compatibility ==
    /\ []((Active /\ Cfg.compatible_verbosity)
            => \A p \in DOMAIN disk : p.severity \notin {"TRACE", "DEBUG"})
    /\ [][(LogStep /\ AtLeastAsSevere(last'.record.level, Cfg.flags.minloglevel))
            => LET level == last'.record.level
                   letter == ExpectedLetter(Cfg.compatible_verbosity, level)
                   added == Delta(console', console)
               IN  /\ \A i \in 1..Len(added) :
                        added[i].kind = "line" => added[i].body.letter = letter
                   /\ ToConsole => Count(added, "line") = 1
                   /\ ToFile =>
                        \E p \in DOMAIN disk :
                            /\ p.severity = ExpectedFile(Cfg.compatible_verbosity, level)
                            /\ Len(disk'[p]) = Len(disk[p]) + 2
                            /\ disk'[p][Len(disk[p]) + 1].kind = "text"
                            /\ disk'[p][Len(disk[p]) + 1].body.letter = letter]_vars

C4_Witness ==
    /\ LastLogged
    /\ Passed
    /\ last.record.level = "Debug"
    /\ Cfg.compatible_verbosity
    /\ ToFile
    /\ \E p \in DOMAIN disk :
          /\ p.severity = "INFO"
          /\ Len(disk[p]) = 3
          /\ disk[p][2].body.letter = "I"

\* the records the threads have passed to log that are appended to path
Routed(path) ==
    {r \in UNION {{sent[t][i] : i \in 1..Len(sent[t])} : t \in Threads} :
        /\ AtLeastAsSevere(r.level, Cfg.flags.minloglevel)
        /\ path.severity = ExpectedFile(Cfg.compatible_verbosity, r.level)}

Quiescent == \A t \in Threads : pc[t] = << >>

\* C5: under every interleaving of the threads' calls, a severity's file is
\* its header followed by whole lines, each the text of one record followed
\* by one newline, never split by or mixed with another thread's bytes; a
\* text without its newline is there only while its writer holds the lock;
\* and once all calls have returned the file has exactly one line for each
\* passing record of that severity (N*M lines for N threads logging M each).
C5_ConcurrentWrites ==
    Active =>
        \A p \in DOMAIN disk :
            LET f == disk[p]
            IN  /\ f[1].kind = "header"
                /\ \A i \in 2..Len(f) :
                      f[i].kind = (IF i % 2 = 0 THEN "text" ELSE "nl")
                /\ Len(f) % 2 = 0 => Held(p)
                /\ Quiescent =>
                      /\ Len(f) = 1 + 2 * Cardinality(Routed(p))
                      /\ {f[i].body.msg : i \in {j \in 2..Len(f) : j % 2 = 0}}
                            = {r.args : r \in Routed(p)}

C5_Witness ==
    /\ Active
    /\ Quiescent
    /\ \A t \in Threads : Len(sent[t]) = MaxPerThread
    /\ \E p \in DOMAIN disk :
          /\ Len(disk[p]) = 1 + 2 * NThreads * MaxPerThread
          /\ \A t \in Threads : \E i \in 2..Len(disk[p]) :
                disk[p][i].kind = "text" /\ disk[p][i].body.tid = t

\* C6: every failure to write or flush, to a log file or to the console,
\* inside log or inside flush, is fatal: the call aborts instead of
\* returning normally.
C6_FatalIOErrors ==
    (last.op \in {"log", "flush"} /\ last.ioerror) => last.outcome = "panic"

\* "<basename>:<line>" of the record equals the configured trigger
Triggered(record) ==
    /\ Cfg.flags.log_backtrace_at.some
    /\ Len(record.file) > 0
    /\ Cfg.flags.log_backtrace_at.v
          = record.file[Len(record.file)] \o ":" \o ToString(record.line)

\* C7 as stated: every passing record that matches the trigger is followed by
\* a backtrace block.
C7_BacktraceOnEverySink ==
    (LastLogged /\ Passed /\ Triggered(last.record) /\ last.outcome = "ok")
        => (console # << >> /\ console[Len(console)].kind = "backtrace")

\* C7: a passing record that is written to the console is followed there,
\* directly after its line (and the colour reset), by a backtrace block iff
\* a trigger is configured and equals "<basename>:<line>" of the record; no
\* backtrace is ever written to a log file, and a record that is not written
\* to the console produces none.
C7_BacktraceOnConsole ==
    /\ [](\A p \in DOMAIN disk : Count(disk[p], "backtrace") = 0)
    /\ [][(LogStep /\ AtLeastAsSevere(last'.record.level, Cfg.flags.minloglevel))
            => LET added == Delta(console', console)
               IN  IF ToConsole
                   THEN Kinds(Visible(added))
                            = (IF Triggered(last'.record)
                               THEN <<"line", "backtrace">> ELSE <<"line">>)
                   ELSE added = << >>]_vars

C7_Witness ==
    /\ LastLogged
    /\ Passed
    /\ ToConsole
    /\ Triggered(last.record)
    /\ Cfg.flags.colorlogtostderr
    /\ Kinds(console) = <<"color", "line", "reset", "backtrace">>

\* H:MM:SS of a number of elapsed seconds
HMS(elapsed) ==
    ToString(elapsed \div 3600) \o ":"
        \o Pad2((elapsed \div 60) % 60) \o ":"
        \o Pad2(elapsed % 60)

\* C8: the running-duration field of every file header is H:MM:SS, H the
\* whole elapsed hours, MM and SS the remaining minutes and seconds, each two
\* digits in 00..59.
C8_HeaderDuration ==
    \A p \in DOMAIN disk :
        disk[p][1].body.duration = HMS(disk[p][1].body.created - glog.start_time)

\* C9: an initialize call made when the logger is already active is reported
\* as an error and leaves the registered logger, the facade's global
\* minimum-severity gate and the set of log files on disk as they were.
C9_OneShotInit ==
    [][(ninits' = ninits + 1 /\ Active)
        => /\ last'.outcome = "err"
           /\ logger' = logger
           /\ max_level' = max_level
           /\ DOMAIN disk' = DOMAIN disk]_vars

ExpectedKeys(compatible) ==
    {"Info", "Warn", "Error"} \cup (IF compatible THEN {} ELSE {"Trace", "Debug"})

\* C10: once initialization with file output has completed, the handle map
\* of the active logger has exactly the keys Info, Warn, Error, plus Trace
\* and Debug when compatibility mode is off; each key's file exists and
\* starts with its header; no call of log or flush adds or removes a key;
\* and the effective severity of every passing record has a handle.
C10_HandleMap ==
    /\ []((Active /\ ToFile) =>
            /\ DOMAIN Cfg.file_writer = ExpectedKeys(Cfg.compatible_verbosity)
            /\ \A level \in DOMAIN Cfg.file_writer :
                  /\ Cfg.file_writer[level] \in DOMAIN disk
                  /\ Cfg.file_writer[level].severity = ExpectedFile(FALSE, level)
                  /\ disk[Cfg.file_writer[level]][1].kind = "header"
            /\ \A level \in Levels :
                  AtLeastAsSevere(level, Cfg.flags.minloglevel)
                      => Effective(Cfg.compatible_verbosity, level)
                            \in DOMAIN Cfg.file_writer
            /\ last.outcome # "panic")
    /\ [][Active => logger' = logger]_vars

C10_Witness ==
    /\ LastLogged
    /\ Passed
    /\ ToFile
    /\ ~Cfg.compatible_verbosity
    /\ last.record.level = "Trace"
    /\ last.outcome = "ok"
    /\ DOMAIN Cfg.file_writer = Levels

====
